---- MODULE Spec2Model ----
(***************************************************************************)
(* LoopMate (src/src/App.js): a React component that turns a process value *)
(* into a 4-20 mA signal, the load resistance under a 24 V supply and a    *)
(* resistor colour code, and samples a resistance/current curve.           *)
(*                                                                         *)
(* Numbers.  A JavaScript number is modelled as a record [n, d, e]:        *)
(*   d > 0          the finite value (n / d) * 10^e, n/d in lowest terms;  *)
(*                  e > 0 is used only with d = 1, for integers too large  *)
(*                  for TLC's 32-bit integers;                             *)
(*   d = 0, n = 1   Infinity;  d = 0, n = -1  -Infinity;  d = 0, n = 0 NaN.*)
(* Arithmetic is exact (binary rounding of IEEE doubles is not modelled),  *)
(* and -0 is identified with 0 (both print as "0").                        *)
(*                                                                         *)
(* Strings.  A string made of colour names is modelled as the sequence of  *)
(* its ", "-separated pieces (what colorCode.split(', ') returns), so      *)
(* "Red, Red, Brown" is <<"Red","Red","Brown">>, "N/A" is <<"N/A">> and    *)
(* the empty string is <<"">>.  A numeral is the sequence of its           *)
(* characters.                                                             *)
(***************************************************************************)
EXTENDS Integers, Sequences, FiniteSets, TLC

VARIABLES
    \* React state of App
    processValue, pvMin, pvMax, currentMa, resistance, colorCode,
    bandCount, tolerance, graphData,
    \* passive effects scheduled by the last commit and not yet run
    pending,
    \* one call of a pure function: the call and what it returned
    call, ret,
    \* the loop of generateGraphData, one iteration at a time
    gpc, gi, gdata, gprev, gcalls

appVars == <<processValue, pvMin, pvMax, currentMa, resistance, colorCode,
             bandCount, tolerance, graphData, pending>>
fnVars == <<call, ret>>
loopVars == <<gpc, gi, gdata, gprev, gcalls>>
vars == <<appVars, fnVars, loopVars>>

----------------------------------------------------------------------------
(* Bounds of the model *)

\* typed and slid values are the multiples of InputStep up to InputStep * MaxInput
MaxInput == 5
\* arguments of calculateCurrent: k / q with |k| <= MaxK, 1 <= q <= MaxQ
MaxK == 5
MaxQ == 2
\* arguments of calculateResistance: the halves k / 2 with |k| <= MaxHalf
MaxHalf == 41
\* resistances given to getResistorColorCode: the halves k / 2 with
\* -MaxNegHalf <= k <= MaxResHalf, and Mantissas * 10^e with 1 <= e <= MaxExp
MaxResHalf == 250
MaxNegHalf == 12
MaxExp == 21
\* band counts tried: 0..MaxBands
MaxBands == 6
\* tolerances tried: 0..MaxTolerance
MaxTolerance == 10
\* how many times generateGraphData is called in a row
MaxCalls == 4

----------------------------------------------------------------------------
(* JavaScript numbers *)

Abs(i) == IF i < 0 THEN -i ELSE i
Sgn(i) == IF i < 0 THEN -1 ELSE IF i > 0 THEN 1 ELSE 0

\* Euclid's algorithm (a function, so that its arguments are evaluated once)
GcdOf[a \in Nat, b \in Nat] == IF b = 0 THEN a ELSE GcdOf[b, a % b]
Gcd(a, b) == GcdOf[a, b]

\* n / d in lowest terms; a zero denominator gives Infinity, -Infinity or NaN
Norm(n, d) ==
    IF d = 0 THEN [n |-> Sgn(n), d |-> 0, e |-> 0]
    ELSE LET g == Gcd(Abs(n), d)
         IN  [n |-> n \div g, d |-> d \div g, e |-> 0]

Num(i) == [n |-> i, d |-> 1, e |-> 0]
Rat(n, d) == Norm(n, d)
NaN == [n |-> 0, d |-> 0, e |-> 0]
Infinity == [n |-> 1, d |-> 0, e |-> 0]
NegInfinity == [n |-> -1, d |-> 0, e |-> 0]

IsNaN(x) == x.d = 0 /\ x.n = 0
IsFinite(x) == x.d > 0
IsZero(x) == x.d > 0 /\ x.n = 0

Neg(x) == [x EXCEPT !.n = -x.n]

\* a + b
Add(a, b) ==
    IF a.d = 0 /\ b.d = 0
    THEN IF a = b THEN a ELSE NaN
    ELSE Norm(a.n * b.d + b.n * a.d, a.d * b.d)

\* a - b
Sub(a, b) == Add(a, Neg(b))

\* a * b
Mul(a, b) == Norm(a.n * b.n, a.d * b.d)

\* 1 / b; 1 / 0 is Infinity
Recip(b) == IF b.n = 0 THEN Norm(b.d, 0) ELSE Norm(b.d * Sgn(b.n), Abs(b.n))

\* a / b
Div(a, b) == Mul(a, Recip(b))

\* a < b and a <= b; false when either is NaN
Lt(a, b) ==
    /\ ~IsNaN(a)
    /\ ~IsNaN(b)
    /\ IF a.d > 0 /\ b.d > 0 THEN a.n * b.d < b.n * a.d
       ELSE IF a.d = 0 /\ b.d = 0 THEN a.n < b.n
       ELSE IF a.d = 0 THEN a.n < 0
       ELSE b.n > 0
Le(a, b) == ~IsNaN(a) /\ ~IsNaN(b) /\ (a = b \/ Lt(a, b))

\* Math.min(a, b), Math.max(a, b)
MathMin(a, b) == IF IsNaN(a) \/ IsNaN(b) THEN NaN ELSE IF Le(a, b) THEN a ELSE b
MathMax(a, b) == IF IsNaN(a) \/ IsNaN(b) THEN NaN ELSE IF Le(a, b) THEN b ELSE a

\* x || dflt : NaN and 0 are falsy
OrElse(x, dflt) == IF IsNaN(x) \/ IsZero(x) THEN dflt ELSE x

\* Math.round(x): the nearest integer, ties towards +Infinity
MathRound(x) ==
    IF x.d = 0 \/ x.e > 0 THEN x
    ELSE Num((2 * x.n + x.d) \div (2 * x.d))

----------------------------------------------------------------------------
(* Number.prototype.toString and parseInt, on integers *)

DigitChars == <<"0", "1", "2", "3", "4", "5", "6", "7", "8", "9">>

RECURSIVE NatToString(_)
NatToString(i) ==
    IF i < 10 THEN <<DigitChars[i + 1]>>
    ELSE NatToString(i \div 10) \o <<DigitChars[(i % 10) + 1]>>

Zeros(k) == [j \in 1..k |-> "0"]

RECURSIVE StripZeros(_)
StripZeros(s) ==
    IF Len(s) > 1 /\ s[Len(s)] = "0" THEN StripZeros(SubSeq(s, 1, Len(s) - 1))
    ELSE s

\* the numeral of a positive integer whose decimal digits are ds: plain up
\* to 21 digits, d[.ddd]e+XX from 22 digits on
PositiveToString(ds) ==
    IF Len(ds) <= 21 THEN ds
    ELSE LET sig == StripZeros(ds)
         IN  <<sig[1]>>
             \o (IF Len(sig) > 1 THEN <<".">> \o SubSeq(sig, 2, Len(sig)) ELSE <<>>)
             \o <<"e", "+">> \o NatToString(Len(ds) - 1)

\* x.toString() for an integer-valued x, then .split('')
NumberToString(x) ==
    IF IsNaN(x) THEN <<"N", "a", "N">>
    ELSE IF x = Infinity THEN <<"I", "n", "f", "i", "n", "i", "t", "y">>
    ELSE IF x = NegInfinity THEN <<"-", "I", "n", "f", "i", "n", "i", "t", "y">>
    ELSE IF x.n = 0 THEN <<"0">>
    ELSE (IF x.n < 0 THEN <<"-">> ELSE <<>>)
         \o PositiveToString(NatToString(Abs(x.n)) \o Zeros(x.e))

\* parseInt of a one-character string
ParseInt(ch) ==
    IF \E k \in 0..9 : DigitChars[k + 1] = ch
    THEN Num(CHOOSE k \in 0..9 : DigitChars[k + 1] = ch)
    ELSE NaN

----------------------------------------------------------------------------
(* The pure functions of App *)

toleranceOptions ==
    << [value |-> 1, color |-> "Brown"],
       [value |-> 2, color |-> "Red"],
       [value |-> 5, color |-> "Gold"],
       [value |-> 10, color |-> "Silver"] >>

\* mutant: the span taken as max instead of max - min
calculateCurrent_SpanMax(value, min, max) ==
    Add(Num(4), Mul(Sub(value, min), Div(Num(16), max)))

calculateCurrent(value, min, max) ==
    Add(Num(4), Mul(Sub(value, min), Div(Num(16), Sub(max, min))))

\* mutant: the current used in mA, without the conversion to A
calculateResistance_NoUnit(current) == Div(Num(24), current)

calculateResistance(current) ==
    LET currentA == Div(current, Num(1000))
    IN  Div(Num(24), currentA)

\* mutant: the lookup never matches, so the default is always returned
getToleranceColor_AlwaysDefault(tolerancePercent) == "Gold"

getToleranceColor(tolerancePercent) ==
    IF \E k \in 1..Len(toleranceOptions) : toleranceOptions[k].value = tolerancePercent
    THEN LET k == CHOOSE j \in 1..Len(toleranceOptions) :
                      /\ toleranceOptions[j].value = tolerancePercent
                      /\ \A h \in 1..(j - 1) : toleranceOptions[h].value # tolerancePercent
         IN  toleranceOptions[k].color
    ELSE "Gold"

colors == <<"Black", "Brown", "Red", "Orange", "Yellow",
            "Green", "Blue", "Violet", "Gray", "White">>

\* colors[x] inside a template literal: an index that is no element of the
\* array (NaN, 10, ...) reads undefined, which prints as "undefined"
ColorAt(x) ==
    IF x.d = 1 /\ x.e = 0 /\ x.n >= 0 /\ x.n < Len(colors) THEN colors[x.n + 1]
    ELSE "undefined"

\* mutant: push instead of unshift, padding on the right
RECURSIVE PadDigits_Right(_)
PadDigits_Right(digits) ==
    IF Len(digits) < 3 THEN PadDigits_Right(digits \o <<"0">>) ELSE digits

\* while (digits.length < 3) digits.unshift('0')
RECURSIVE PadDigits(_)
PadDigits(digits) == IF Len(digits) < 3 THEN PadDigits(<<"0">> \o digits) ELSE digits

\* let multiplier = digits.length - k; if (multiplier < 0) multiplier = 0
Multiplier(digits, k) == IF Len(digits) - k < 0 THEN 0 ELSE Len(digits) - k

\* mutant: the last branch tests bands >= 5, so 6 bands are coded as 5
getResistorColorCode_AtLeast5(resValue, bands, tolerancePercent) ==
    LET toleranceColor == getToleranceColor(tolerancePercent)
        resistanceRounded == MathRound(resValue)
        digits == NumberToString(resistanceRounded)
    IN  IF bands = 3 THEN
            IF Len(digits) < 2 THEN <<"N/A">>
            ELSE << ColorAt(ParseInt(digits[1])), ColorAt(ParseInt(digits[2])),
                    ColorAt(Num(Multiplier(digits, 2))) >>
        ELSE IF bands = 4 THEN
            IF Len(digits) < 2 THEN <<"N/A">>
            ELSE << ColorAt(ParseInt(digits[1])), ColorAt(ParseInt(digits[2])),
                    ColorAt(Num(Multiplier(digits, 2))), toleranceColor >>
        ELSE IF bands >= 5 THEN
            LET padded == PadDigits(digits)
            IN  << ColorAt(ParseInt(padded[1])), ColorAt(ParseInt(padded[2])),
                   ColorAt(ParseInt(padded[3])),
                   ColorAt(Num(Multiplier(padded, 3))), toleranceColor >>
        ELSE <<"Invalid band count">>

getResistorColorCode(resValue, bands, tolerancePercent) ==
    LET toleranceColor == getToleranceColor(tolerancePercent)
        resistanceRounded == MathRound(resValue)
        digits == NumberToString(resistanceRounded)
    IN  IF bands = 3 THEN
            IF Len(digits) < 2 THEN <<"N/A">>
            ELSE << ColorAt(ParseInt(digits[1])), ColorAt(ParseInt(digits[2])),
                    ColorAt(Num(Multiplier(digits, 2))) >>
        ELSE IF bands = 4 THEN
            IF Len(digits) < 2 THEN <<"N/A">>
            ELSE << ColorAt(ParseInt(digits[1])), ColorAt(ParseInt(digits[2])),
                    ColorAt(Num(Multiplier(digits, 2))), toleranceColor >>
        ELSE IF bands = 5 THEN
            LET padded == PadDigits(digits)
            IN  << ColorAt(ParseInt(padded[1])), ColorAt(ParseInt(padded[2])),
                   ColorAt(ParseInt(padded[3])),
                   ColorAt(Num(Multiplier(padded, 3))), toleranceColor >>
        ELSE <<"Invalid band count">>

\* the loop of generateGraphData: its test, its body and its increment
LoopStart == Num(4)
\* mutant: i < 20 instead of i <= 20
LoopTest_Strict(i) == Lt(i, Num(20))
LoopTest(i) == Le(i, Num(20))
LoopPoint(i) == [current |-> i, resistance |-> calculateResistance(i)]
LoopIncrement(i) == Add(i, Rat(1, 2))

RECURSIVE GraphLoop(_, _)
GraphLoop(i, data) ==
    IF LoopTest(i) THEN GraphLoop(LoopIncrement(i), Append(data, LoopPoint(i)))
    ELSE data

generateGraphData == GraphLoop(LoopStart, <<>>)

----------------------------------------------------------------------------
(* The component: state, event handlers and effects.                       *)
(* Every state of this machine is a committed render.  React runs the      *)
(* passive effects of a commit before it processes the next state update,  *)
(* so a handler runs only when no effect is pending.                       *)

\* what the user can type or slide to; an emptied field parses to NaN
InputValues == {Num(20 * k) : k \in 0..MaxInput}
TypedValues == InputValues \cup {NaN}

\* <input type="range" min={pvMin} max={pvMax}>: the browser keeps the value
\* within [min, max], and at min when max < min
SliderValues ==
    IF Lt(pvMax, pvMin) THEN {pvMin}
    ELSE {v \in InputValues : Le(pvMin, v) /\ Le(v, pvMax)}

InitApp ==
    /\ processValue = Num(50)
    /\ pvMin = Num(0)
    /\ pvMax = Num(100)
    /\ currentMa = Num(0)
    /\ resistance = Num(0)
    /\ colorCode = <<"">>
    /\ bandCount = 4
    /\ tolerance = 5
    /\ graphData = <<>>
    /\ pending = "mount"

\* a state setter with a new value schedules the recompute effect; with the
\* same value React bails out
Scheduled(old, new) == IF new # old THEN "update" ELSE "none"

derived == <<currentMa, resistance, colorCode, graphData>>

SliderChange(v) ==
    /\ pending = "none"
    /\ v \in SliderValues
    /\ processValue' = v
    /\ pending' = Scheduled(processValue, v)
    /\ UNCHANGED <<pvMin, pvMax, bandCount, tolerance, derived>>
    /\ UNCHANGED <<fnVars, loopVars>>

NumberEdit(t) ==
    /\ pending = "none"
    /\ processValue' = MathMin(pvMax, MathMax(pvMin, OrElse(t, Num(0))))
    /\ pending' = Scheduled(processValue, processValue')
    /\ UNCHANGED <<pvMin, pvMax, bandCount, tolerance, derived>>
    /\ UNCHANGED <<fnVars, loopVars>>

MinEdit(t) ==
    /\ pending = "none"
    /\ pvMin' = OrElse(t, Num(0))
    /\ pending' = Scheduled(pvMin, pvMin')
    /\ UNCHANGED <<processValue, pvMax, bandCount, tolerance, derived>>
    /\ UNCHANGED <<fnVars, loopVars>>

MaxEdit(t) ==
    /\ pending = "none"
    /\ pvMax' = OrElse(t, Num(1))
    /\ pending' = Scheduled(pvMax, pvMax')
    /\ UNCHANGED <<processValue, pvMin, bandCount, tolerance, derived>>
    /\ UNCHANGED <<fnVars, loopVars>>

BandSelect(b) ==
    /\ pending = "none"
    /\ bandCount' = b
    /\ pending' = Scheduled(bandCount, b)
    /\ UNCHANGED <<processValue, pvMin, pvMax, tolerance, derived>>
    /\ UNCHANGED <<fnVars, loopVars>>

\* the tolerance select is disabled while bandCount is 3
ToleranceSelect(t) ==
    /\ pending = "none"
    /\ bandCount # 3
    /\ tolerance' = t
    /\ pending' = Scheduled(tolerance, t)
    /\ UNCHANGED <<processValue, pvMin, pvMax, bandCount, derived>>
    /\ UNCHANGED <<fnVars, loopVars>>

\* the values the recompute effect computes, from the state it was rendered with
RecomputedCurrent == calculateCurrent(processValue, pvMin, pvMax)
\* mutant: the resistance computed from the currentMa of the render (the
\* previous signal) instead of the current just computed
RecomputedResistance_Stale == calculateResistance(currentMa)
RecomputedResistance == calculateResistance(RecomputedCurrent)
RecomputedColorCode == getResistorColorCode(RecomputedResistance, bandCount, tolerance)

\* useEffect(..., [processValue, pvMin, pvMax, bandCount, tolerance, ...])
RecomputeEffect ==
    /\ currentMa' = RecomputedCurrent
    /\ resistance' = RecomputedResistance
    /\ colorCode' = RecomputedColorCode
    /\ graphData' = generateGraphData

\* on mount the recompute effect runs, then the effect that initialises the
\* graph sets graphData once more
MountEffects ==
    /\ pending = "mount"
    /\ RecomputeEffect
    /\ graphData' = generateGraphData
    /\ pending' = "none"
    /\ UNCHANGED <<processValue, pvMin, pvMax, bandCount, tolerance>>
    /\ UNCHANGED <<fnVars, loopVars>>

UpdateEffects ==
    /\ pending = "update"
    /\ RecomputeEffect
    /\ pending' = "none"
    /\ UNCHANGED <<processValue, pvMin, pvMax, bandCount, tolerance>>
    /\ UNCHANGED <<fnVars, loopVars>>

----------------------------------------------------------------------------
(* One call of a pure function on arguments drawn from bounded sets *)

NoCall == [op |-> "none", x |-> NaN, y |-> NaN, z |-> NaN, bands |-> 0, tol |-> 0]
NoRet == [done |-> FALSE, num |-> NaN, code |-> <<>>]

CurrentArgs == {Rat(k, q) : k \in (-MaxK)..MaxK, q \in 1..MaxQ}
ResistanceArgs ==
    {Rat(k, 2) : k \in (-MaxHalf)..MaxHalf} \cup {NaN, Infinity, NegInfinity}
Mantissas == {1, 2, 15, 22, 47, 123, 1234}
CodeArgs ==
    {Rat(k, 2) : k \in (-MaxNegHalf)..MaxResHalf}
    \cup {[n |-> m, d |-> 1, e |-> e] : m \in Mantissas, e \in 1..MaxExp}
    \cup {NaN, Infinity, NegInfinity}

Calls ==
    {[NoCall EXCEPT !.op = "calculateCurrent", !.x = v, !.y = lo, !.z = hi] :
        v \in CurrentArgs, lo \in CurrentArgs, hi \in CurrentArgs}
    \cup {[NoCall EXCEPT !.op = "calculateResistance", !.x = c] : c \in ResistanceArgs}
    \cup {[NoCall EXCEPT !.op = "getResistorColorCode", !.x = r, !.bands = b, !.tol = t] :
        r \in CodeArgs, b \in 0..MaxBands, t \in 0..MaxTolerance}

InitPure ==
    /\ call \in Calls
    /\ ret = NoRet

CallCalculateCurrent ==
    /\ call.op = "calculateCurrent"
    /\ ~ret.done
    /\ ret' = [NoRet EXCEPT !.done = TRUE,
                            !.num = calculateCurrent(call.x, call.y, call.z)]
    /\ UNCHANGED call
    /\ UNCHANGED <<appVars, loopVars>>

CallCalculateResistance ==
    /\ call.op = "calculateResistance"
    /\ ~ret.done
    /\ ret' = [NoRet EXCEPT !.done = TRUE, !.num = calculateResistance(call.x)]
    /\ UNCHANGED call
    /\ UNCHANGED <<appVars, loopVars>>

CallGetResistorColorCode ==
    /\ call.op = "getResistorColorCode"
    /\ ~ret.done
    /\ ret' = [NoRet EXCEPT !.done = TRUE,
                            !.code = getResistorColorCode(call.x, call.bands, call.tol)]
    /\ UNCHANGED call
    /\ UNCHANGED <<appVars, loopVars>>

----------------------------------------------------------------------------
(* generateGraphData, one loop iteration at a time, called MaxCalls times *)

InitLoop ==
    /\ gpc = "idle"
    /\ gi = LoopStart
    /\ gdata = <<>>
    /\ gprev = {}
    /\ gcalls = 0

\* const data = []; let i = 4
GraphCall ==
    /\ gpc = "idle"
    /\ gcalls < MaxCalls
    /\ gpc' = "loop"
    /\ gi' = LoopStart
    /\ gdata' = <<>>
    /\ gcalls' = gcalls + 1
    /\ UNCHANGED gprev
    /\ UNCHANGED <<appVars, fnVars>>

\* i <= 20 holds: data.push({current: i, resistance: ...}); i += 0.5
GraphIterate ==
    /\ gpc = "loop"
    /\ LoopTest(gi)
    /\ gdata' = Append(gdata, LoopPoint(gi))
    /\ gi' = LoopIncrement(gi)
    /\ UNCHANGED <<gpc, gprev, gcalls>>
    /\ UNCHANGED <<appVars, fnVars>>

\* i <= 20 fails: return data; gprev collects the values returned so far
GraphReturn ==
    /\ gpc = "loop"
    /\ ~LoopTest(gi)
    /\ gpc' = "idle"
    /\ gprev' = gprev \cup {gdata}
    /\ UNCHANGED <<gi, gdata, gcalls>>
    /\ UNCHANGED <<appVars, fnVars>>

----------------------------------------------------------------------------
(* Specifications *)

\* the component under user events
Next ==
    \/ \E v \in InputValues : SliderChange(v)
    \/ \E t \in TypedValues : NumberEdit(t)
    \/ \E t \in TypedValues : MinEdit(t)
    \/ \E t \in TypedValues : MaxEdit(t)
    \/ \E b \in {3, 4, 5} : BandSelect(b)
    \/ \E k \in 1..Len(toleranceOptions) : ToleranceSelect(toleranceOptions[k].value)
    \/ MountEffects
    \/ UpdateEffects

Init == InitApp /\ call = NoCall /\ ret = NoRet /\ InitLoop
Spec == Init /\ [][Next]_vars

\* the pure functions, each applied once to every argument in the bounded sets
PureNext ==
    \/ CallCalculateCurrent
    \/ CallCalculateResistance
    \/ CallGetResistorColorCode

PureInit == InitApp /\ InitPure /\ InitLoop
SpecPure == PureInit /\ [][PureNext]_vars

\* the loop of generateGraphData; a started call runs to completion
\* (JavaScript runs a function without interruption)
LoopNext ==
    \/ GraphCall
    \/ GraphIterate
    \/ GraphReturn

LoopInit == InitApp /\ call = NoCall /\ ret = NoRet /\ InitLoop
SpecLoop == LoopInit /\ [][LoopNext]_vars /\ WF_vars(GraphIterate \/ GraphReturn)

----------------------------------------------------------------------------
(* Properties *)

\* the 10-entry palette, by digit value
Palette == <<"Black", "Brown", "Red", "Orange", "Yellow",
             "Green", "Blue", "Violet", "Gray", "White">>
PaletteColor(k) == Palette[k + 1]
DigitValue(ch) == CHOOSE k \in 0..9 : DigitChars[k + 1] = ch

\* the decimal digits of a non-negative integer
DecimalDigits(r) == NatToString(r.n) \o Zeros(r.e)
\* the number of significant-digit bands
SigDigits(b) == IF b = 5 THEN 3 ELSE 2
Max0(i) == IF i < 0 THEN 0 ELSE i

RECURSIVE Pow10(_)
Pow10(k) == IF k = 0 THEN 1 ELSE 10 * Pow10(k - 1)

Returned(op) == call.op = op /\ ret.done
NonNegative(x) == IsFinite(x) /\ x.n >= 0
IsBandList(code) == code # <<"N/A">> /\ code # <<"Invalid band count">>

\* C1: for min < max and min <= value <= max, calculateCurrent returns
\* 4 + (value - min) * 16 / (max - min), which lies in [4, 20], is 4 at
\* value = min and 20 at value = max
C1_CurrentLinear ==
    (/\ Returned("calculateCurrent")
     /\ Lt(call.y, call.z)
     /\ Le(call.y, call.x)
     /\ Le(call.x, call.z))
    => /\ ret.num = Add(Num(4), Div(Mul(Sub(call.x, call.y), Num(16)),
                                    Sub(call.z, call.y)))
       /\ Le(Num(4), ret.num)
       /\ Le(ret.num, Num(20))
       /\ (call.x = call.y => ret.num = Num(4))
       /\ (call.x = call.z => ret.num = Num(20))

C1_Witness ==
    /\ Returned("calculateCurrent")
    /\ call.y = Rat(-3, 2)
    /\ call.z = Num(5)
    /\ call.x = Num(5)
    /\ ret.num = Num(20)

\* C2: for a nonzero current in mA calculateResistance returns
\* 24000 / current: 6000 for 4, 2000 for 12, 1200 for 20
C2_OhmsLaw ==
    (Returned("calculateResistance") /\ IsFinite(call.x) /\ ~IsZero(call.x))
    => /\ ret.num = Div(Num(24000), call.x)
       /\ (call.x = Num(4) => ret.num = Num(6000))
       /\ (call.x = Num(12) => ret.num = Num(2000))
       /\ (call.x = Num(20) => ret.num = Num(1200))

C2_Witness ==
    /\ Returned("calculateResistance")
    /\ call.x = Num(12)
    /\ ret.num = Num(2000)

\* C3: for a non-negative resistance whose rounded value has at least N
\* digits (N = 2 for 3 or 4 bands, 3 for 5 bands) the first N bands are the
\* palette colours of its first N digits and the next band is the palette
\* colour of max(0, digitCount - N); (220, 4, 5) gives Red, Red, Brown, Gold
\* and (2000, 3, _) gives Red, Black, Red
C3_DigitBands ==
    (/\ Returned("getResistorColorCode")
     /\ call.bands \in {3, 4, 5}
     /\ NonNegative(call.x))
    => LET ds == DecimalDigits(MathRound(call.x))
           N == SigDigits(call.bands)
           m == Max0(Len(ds) - N)
       IN  /\ Len(ds) >= N
              => /\ m \in 0..9
                 /\ Len(ret.code) >= N + 1
                 /\ \A k \in 1..N : ret.code[k] = PaletteColor(DigitValue(ds[k]))
                 /\ ret.code[N + 1] = PaletteColor(m)
           /\ (ds = <<"2", "2", "0">> /\ call.bands = 4 /\ call.tol = 5)
              => ret.code = <<"Red", "Red", "Brown", "Gold">>
           /\ (ds = <<"2", "0", "0", "0">> /\ call.bands = 3)
              => ret.code = <<"Red", "Black", "Red">>

\* C4: 5 bands never give "N/A", and a rounded value of fewer than 3 digits
\* is left-padded with zeros to 3 digits, with multiplier Black; 3 and 4
\* bands give "N/A" exactly when the rounded value is one of 0..9;
\* (47, 5, 1) gives Black, Yellow, Violet, Black, Brown
C4_ShortValues ==
    Returned("getResistorColorCode")
    => LET r == MathRound(call.x)
       IN  /\ call.bands = 5 => ret.code # <<"N/A">>
           /\ (call.bands = 5 /\ NonNegative(call.x) /\ Len(DecimalDigits(r)) < 3)
              => LET ds == DecimalDigits(r)
                     p == Zeros(3 - Len(ds)) \o ds
                 IN  /\ Len(ret.code) = 5
                     /\ \A k \in 1..3 : ret.code[k] = PaletteColor(DigitValue(p[k]))
                     /\ ret.code[4] = "Black"
           /\ call.bands \in {3, 4}
              => (ret.code = <<"N/A">>
                  <=> (IsFinite(call.x) /\ r.e = 0 /\ r.n \in 0..9))
           /\ (call.x = Num(47) /\ call.bands = 5 /\ call.tol = 1)
              => ret.code = <<"Black", "Yellow", "Violet", "Black", "Brown">>

C4_Witness ==
    /\ Returned("getResistorColorCode")
    /\ call.x = Num(47)
    /\ call.bands = 5
    /\ call.tol = 1
    /\ ret.code = <<"Black", "Yellow", "Violet", "Black", "Brown">>

\* C5: with 4 or 5 bands and a tolerance of 1, 2, 5 or 10 the last band is
\* Brown, Red, Gold or Silver; with 3 bands the result does not depend on the
\* tolerance; a band list has exactly bandCount colours
ToleranceTable(t) ==
    CASE t = 1 -> "Brown"
      [] t = 2 -> "Red"
      [] t = 5 -> "Gold"
      [] t = 10 -> "Silver"

C5_ToleranceBand ==
    Returned("getResistorColorCode")
    => /\ (call.bands \in {4, 5} /\ call.tol \in {1, 2, 5, 10} /\ IsBandList(ret.code))
          => ret.code[Len(ret.code)] = ToleranceTable(call.tol)
       /\ call.bands = 3
          => \A t \in 0..MaxTolerance : getResistorColorCode(call.x, 3, t) = ret.code
       /\ IsBandList(ret.code) => Len(ret.code) = call.bands

C5_Witness ==
    /\ Returned("getResistorColorCode")
    /\ call.x = Num(47)
    /\ call.bands = 4
    /\ call.tol = 10
    /\ ret.code = <<"Yellow", "Violet", "Black", "Silver">>

\* C6: a band count other than 3, 4 or 5 gives "Invalid band count",
\* whatever the resistance and the tolerance
C6_InvalidBandCount ==
    (Returned("getResistorColorCode") /\ call.bands \notin {3, 4, 5})
    => ret.code = <<"Invalid band count">>

C6_Witness ==
    /\ Returned("getResistorColorCode")
    /\ call.bands = 6
    /\ call.x = Num(47)
    /\ ret.code = <<"Invalid band count">>

\* C7: every call of generateGraphData terminates and returns the same 33
\* points, currents 4.0, 4.5, ..., 20.0 in order, each with
\* calculateResistance(current), the resistances strictly decreasing
ExpectedCurrent(k) == Rat(8 + (k - 1), 2)
GraphOk(data) ==
    /\ Len(data) = 33
    /\ \A k \in 1..Len(data) :
          /\ data[k].current = ExpectedCurrent(k)
          /\ data[k].resistance = calculateResistance(ExpectedCurrent(k))
    /\ \A k \in 1..(Len(data) - 1) : Lt(data[k + 1].resistance, data[k].resistance)

C7_GraphData ==
    /\ []((gpc = "idle" /\ gcalls > 0) => (gprev = {gdata} /\ GraphOk(gdata)))
    /\ ((gpc = "loop") ~> (gpc = "idle"))

C7_Witness ==
    /\ gpc = "idle"
    /\ gcalls = 2
    /\ Len(gdata) = 33

\* C8: once the recomputation has run, currentMa is within [4, 20], after
\* any sequence of input events
C8_SignalRange ==
    pending = "none" => (Le(Num(4), currentMa) /\ Le(currentMa, Num(20)))

\* the derived values are those of the current inputs
Consistent ==
    /\ currentMa = calculateCurrent(processValue, pvMin, pvMax)
    /\ resistance = calculateResistance(currentMa)
    /\ colorCode = getResistorColorCode(resistance, bandCount, tolerance)
    /\ graphData = generateGraphData

\* C9 as stated: in every rendered state, the first one and the one right
\* after an input change included, the derived values are those of the
\* current inputs
C9_AlwaysConsistent == Consistent

\* C9 as amended: in every rendered state with no effect pending, the derived
\* values are those of the current inputs
C9_ConsistentWhenSettled == pending = "none" => Consistent

C9_Witness ==
    /\ pending = "none"
    /\ processValue = Num(80)
    /\ pvMin = Num(0)
    /\ pvMax = Num(100)
    /\ currentMa = Rat(84, 5)
    /\ resistance = Rat(10000, 7)
    /\ bandCount = 5
    /\ tolerance = 5
    /\ colorCode = <<"Brown", "Yellow", "Red", "Brown", "Gold">>

\* C10: when a band list is returned for a non-negative rounded resistance r
\* the multiplier index m = max(0, digitCount - N) is within 0..9 and the
\* bands decode to r truncated to N digits: v * 10^m <= r < (v + 1) * 10^m,
\* v being the number the N digit bands spell
ColorValue(c) ==
    IF \E k \in 0..9 : PaletteColor(k) = c
    THEN CHOOSE k \in 0..9 : PaletteColor(k) = c
    ELSE -1

RECURSIVE BandsValue(_, _)
BandsValue(code, k) ==
    IF k = 0 THEN 0 ELSE 10 * BandsValue(code, k - 1) + ColorValue(code[k])

C10_Decode ==
    (/\ Returned("getResistorColorCode")
     /\ call.bands \in {3, 4, 5}
     /\ NonNegative(call.x)
     /\ IsBandList(ret.code))
    => LET r == MathRound(call.x)
           N == SigDigits(call.bands)
           m == Max0(Len(DecimalDigits(r)) - N)
           v == BandsValue(ret.code, N)
           \* both sides of the comparison divided by 10^min(m, e)
           k == IF m < r.e THEN m ELSE r.e
           lo == v * Pow10(m - k)
           hi == (v + 1) * Pow10(m - k)
           rs == r.n * Pow10(r.e - k)
       IN  /\ m \in 0..9
           /\ \A j \in 1..N : ColorValue(ret.code[j]) >= 0
           /\ lo <= rs
           /\ rs < hi

====
